---- MODULE Spec2Model ----
(***************************************************************************)
(* Model of iptc_annotate.py: the command-line program that walks a        *)
(* directory and annotates every JPEG image with IPTC keywords and a       *)
(* caption/abstract obtained from a vision model.                          *)
(*                                                                         *)
(* Texts (language codes, file names, model responses, keywords, captions) *)
(* are sequences of one-character strings.  Python's None and the empty    *)
(* string / empty list are both written <<>>: the program only ever tests  *)
(* these values for truthiness.                                            *)
(***************************************************************************)
EXTENDS Integers, Sequences, FiniteSets, TLC

\* ------------------------------------------------------------------ bounds
MaxFiles == 2
MaxTextLen == 1
MaxRuns == 2
MaxFunctionTextLen == 4

\* ------------------------------------------------------------- text algebra
Whitespace == {" "}

UpperChars == <<"A", "D", "E", "G", "J", "N", "O", "P">>
LowerChars == <<"a", "d", "e", "g", "j", "n", "o", "p">>

\* str.lower() on one character
LowerChar(c) ==
    IF \E i \in 1..Len(UpperChars) : UpperChars[i] = c
    THEN LowerChars[CHOOSE i \in 1..Len(UpperChars) : UpperChars[i] = c]
    ELSE c

\* str.lower()
Lower(t) == [i \in 1..Len(t) |-> LowerChar(t[i])]

\* str.lstrip() / str.rstrip() / str.strip()
RECURSIVE LStrip(_)
LStrip(t) ==
    IF t # <<>> /\ Head(t) \in Whitespace THEN LStrip(Tail(t)) ELSE t

RECURSIVE RStrip(_)
RStrip(t) ==
    IF t # <<>> /\ t[Len(t)] \in Whitespace
    THEN RStrip(SubSeq(t, 1, Len(t) - 1))
    ELSE t

Strip(t) == RStrip(LStrip(t))

\* str.split(sep) with a one-character separator: every piece, empty ones too
RECURSIVE Split(_, _)
Split(t, sep) ==
    IF \E i \in 1..Len(t) : t[i] = sep
    THEN LET k == CHOOSE i \in 1..Len(t) :
                     t[i] = sep /\ \A j \in 1..(i - 1) : t[j] # sep
         IN  <<SubSeq(t, 1, k - 1)>> \o Split(SubSeq(t, k + 1, Len(t)), sep)
    ELSE <<t>>

\* str.endswith(suffix)
EndsWith(t, suffix) ==
    /\ Len(suffix) <= Len(t)
    /\ SubSeq(t, Len(t) - Len(suffix) + 1, Len(t)) = suffix

\* truthiness of a str / list / None
Truthy(v) == v # <<>>

\* ------------------------------------------------------- program constants
DefaultLanguage == <<"e", "n">>
KeywordSeparator == ";"
JpegSuffixes == { <<".", "j", "p", "g">>, <<".", "j", "p", "e", "g">> }

\* ----------------------------------------------------- inputs of the model
Alphabet == {"A", " ", ";"}
RawTexts == UNION { [1..n -> Alphabet] : n \in 0..MaxTextLen }

Languages == { <<"e", "n">>, <<"E", "N">>, <<"d", "e">>, <<"e">>, <<"e", "n", "g">> }
Directories == { <<>>, <<"d">> }
FileNames == { <<"p", ".", "J", "P", "G">>,
               <<"p", ".", "j", "p", "e", "g">>,
               <<"p", ".", "p", "n", "g">> }

\* a directory listing of n files: os.walk yields every path once
Listings(n) == { f \in [1..n -> FileNames] : \A i, j \in 1..n : f[i] = f[j] => i = j }

\* the file-extension filter of annotate_images
IsJpeg(image_path) == \E suffix \in JpegSuffixes : EndsWith(Lower(image_path), suffix)

\* what an image file holds in its two IPTC fields before the program runs
OldKeywordLists == { <<>>, << <<"z">> >> }
OldCaptions == { <<>>, <<"z">> }
Records == [keywords : OldKeywordLists, caption : OldCaptions]
EmptyRecord == [keywords |-> <<>>, caption |-> <<>>]

\* the stored fields of a listing's files; only JPEG files carry any
Disks(listing) ==
    { d \in [1..Len(listing) -> Records] :
         \A i \in 1..Len(listing) : ~IsJpeg(listing[i]) => d[i] = EmptyRecord }

NoConfiguration == [none |-> TRUE]
NoInfo == [none |-> TRUE]

VARIABLES
    arguments,          \* parsed command line
    files,              \* file paths os.walk yields, in order
    disk,               \* disk[i]: the IPTC fields stored in files[i]
    pc,                 \* position of the program
    configuration,      \* result of get_configuration
    idx,                \* index of the file the traversal is at
    img_for_llava,      \* annotate_image local
    info,               \* annotate_image local: the opened IPTCInfo
    old_keywords,       \* annotate_image local
    old_caption_abstract, \* annotate_image local
    must_save,          \* annotate_image local
    kw,                 \* what the keyword step of this call did
    ca,                 \* what the caption step of this call did
    calls,              \* per annotate_image call: how often each collaborator was invoked
    pre,                \* the stored fields when this annotate_image call started
    processed,          \* indices of the files annotate_image was called for
    run,                \* which execution of the program over the directory this is
    committed,          \* <<i, r, record>>: the last info.save on files[i] wrote record, in run r
    fn_call,            \* a function of the module called on its own: its arguments
    fn_result           \* what that call gave

vars == <<arguments, files, disk, pc, configuration, idx, img_for_llava, info,
          old_keywords, old_caption_abstract, must_save, kw, ca, calls, pre,
          processed, run, committed, fn_call, fn_result>>

locals == <<img_for_llava, info, old_keywords, old_caption_abstract, must_save,
            kw, ca, calls, pre>>

NoFunctionCall == [fn |-> "none"]

NoStep == [outcome |-> "pending", raw |-> <<>>]
NoCalls == [open |-> 0, keywords |-> 0, caption |-> 0, save |-> 0]

FreshLocals ==
    /\ img_for_llava' = "unset"
    /\ info' = NoInfo
    /\ old_keywords' = <<>>
    /\ old_caption_abstract' = <<>>
    /\ must_save' = FALSE
    /\ kw' = NoStep
    /\ ca' = NoStep
    /\ calls' = NoCalls

Init ==
    /\ arguments \in [directory : Directories, overwrite : BOOLEAN, language : Languages]
    /\ \E n \in 0..MaxFiles :
          /\ files \in Listings(n)
          /\ disk \in Disks(files)
    /\ pc = "get_configuration"
    /\ configuration = NoConfiguration
    /\ idx = 0
    /\ img_for_llava = "unset"
    /\ info = NoInfo
    /\ old_keywords = <<>>
    /\ old_caption_abstract = <<>>
    /\ must_save = FALSE
    /\ kw = NoStep
    /\ ca = NoStep
    /\ calls = NoCalls
    /\ pre = EmptyRecord
    /\ processed = {}
    /\ run = 1
    /\ committed = {}
    /\ fn_call = NoFunctionCall
    /\ fn_result = NoFunctionCall

\* ----------------------------------------------------------- configuration
\* a plausible slip in the length test
ValidLanguage_AtMostTwo(language) == Len(language) <= 2

\* the language check of get_configuration
ValidLanguage(language) == Len(language) = 2

\* get_configuration: the [ollama] section is read, is missing (defaults), or holds
\* a timeout that is no float (ValueError, not caught)
GetConfiguration ==
    /\ pc = "get_configuration"
    /\ IF ~ValidLanguage(arguments.language)
       THEN /\ configuration' = NoConfiguration
            /\ pc' = "main"
       ELSE \E section \in {"read", "missing", "bad_timeout"} :
               IF section = "bad_timeout"
               THEN /\ pc' = "crashed"
                    /\ UNCHANGED configuration
               ELSE /\ configuration' = [directory |-> arguments.directory,
                                         overwrite |-> arguments.overwrite,
                                         language  |-> Lower(arguments.language)]
                    /\ pc' = "main"
    /\ UNCHANGED <<run, committed, fn_call, fn_result>>
    /\ UNCHANGED <<arguments, files, disk, idx, locals, processed>>

\* __main__: if configuration: annotate_images(...) else: log the error
Main ==
    /\ pc = "main"
    /\ pc' = IF configuration # NoConfiguration THEN "annotate_images" ELSE "no_configuration"
    /\ UNCHANGED <<run, committed, fn_call, fn_result>>
    /\ UNCHANGED <<arguments, files, disk, configuration, idx, locals, processed>>

\* annotate_images: the directory check before the traversal
AnnotateImages ==
    /\ pc = "annotate_images"
    /\ pc' = IF ~Truthy(configuration.directory) THEN "completed" ELSE "walk"
    /\ UNCHANGED <<run, committed, fn_call, fn_result>>
    /\ UNCHANGED <<arguments, files, disk, configuration, idx, locals, processed>>

\* -------------------------------------------------------------- traversal
\* annotate_images: one turn of the loop over the walked files; a call of
\* annotate_image that has returned ends here and its locals are gone
Walk ==
    /\ pc \in {"walk", "returned"}
    /\ IF idx = Len(files)
       THEN /\ pc' = "completed"
            /\ FreshLocals
            /\ pre' = EmptyRecord
            /\ UNCHANGED <<idx, processed>>
       ELSE /\ idx' = idx + 1
            /\ FreshLocals
            /\ IF IsJpeg(files[idx + 1])
               THEN /\ pc' = "prepare_image_for_llava"
                    /\ pre' = disk[idx + 1]
                    /\ processed' = processed \cup {idx + 1}
               ELSE /\ pc' = "walk"
                    /\ pre' = EmptyRecord
                    /\ UNCHANGED processed
    /\ UNCHANGED <<run, committed, fn_call, fn_result>>
    /\ UNCHANGED <<arguments, files, disk, configuration>>

\* ---------------------------------------------------------- annotate_image
\* prepare_image_for_llava and the check of its result: the path does not
\* exist (None), the image is encoded, or PIL raises while opening, resizing
\* or encoding it (nothing catches that)
PrepareImage ==
    /\ pc = "prepare_image_for_llava"
    /\ \E outcome \in {"missing", "encoded", "error"} :
          CASE outcome = "missing" -> /\ img_for_llava' = "None"
                                      /\ pc' = "returned"
            [] outcome = "encoded" -> /\ img_for_llava' = "payload"
                                      /\ pc' = "open"
            [] outcome = "error"   -> /\ pc' = "crashed"
                                      /\ UNCHANGED img_for_llava
    /\ UNCHANGED <<run, committed, fn_call, fn_result>>
    /\ UNCHANGED <<arguments, files, disk, configuration, idx, info, old_keywords,
                   old_caption_abstract, must_save, kw, ca, calls, pre, processed>>

\* plausible slips in the overwrite switch
OldValue_AlwaysRegenerate(overwrite, stored) == <<>>
OldValue_NeverOverwrite(overwrite, stored) == stored

\* the value the skip test looks at: nothing under --overwrite, else the stored one
OldValue(overwrite, stored) == IF overwrite THEN <<>> ELSE stored

\* IPTCInfo(image_path, force=True, ...), the check of the object and the
\* reading of the old values: the constructor gives a record, gives an object
\* that tests false, or raises (nothing catches that)
OpenMetadata ==
    /\ pc = "open"
    /\ calls' = [calls EXCEPT !.open = @ + 1]
    /\ \E outcome \in {"record", "falsy", "error"} :
          CASE outcome = "record" ->
                  /\ info' = disk[idx]
                  /\ old_keywords' = OldValue(configuration.overwrite, disk[idx].keywords)
                  /\ old_caption_abstract' = OldValue(configuration.overwrite, disk[idx].caption)
                  /\ pc' = "keywords"
            [] outcome = "falsy" ->
                  /\ pc' = "returned"
                  /\ UNCHANGED <<info, old_keywords, old_caption_abstract>>
            [] outcome = "error" ->
                  /\ pc' = "crashed"
                  /\ UNCHANGED <<info, old_keywords, old_caption_abstract>>
    /\ UNCHANGED <<run, committed, fn_call, fn_result>>
    /\ UNCHANGED <<arguments, files, disk, configuration, idx, img_for_llava,
                   must_save, kw, ca, pre, processed>>

\* a plausible slip: the stub forgets to refuse other languages
translate_Passthrough(original_text, target_language) ==
    [raised |-> FALSE, text |-> original_text]

\* translate: the text itself for 'en', NotImplementedError for any other code
translate(original_text, target_language) ==
    IF target_language = DefaultLanguage
    THEN [raised |-> FALSE, text |-> original_text]
    ELSE [raised |-> TRUE, text |-> <<>>]

\* a plausible slip: the filter of the list comprehension is left out
KeptPieces_KeepsBlank(text) == Split(text, KeywordSeparator)

\* the pieces of the response the list comprehension keeps
KeptPieces(text) ==
    SelectSeq(Split(text, KeywordSeparator), LAMBDA k : Len(Strip(k)) > 0)

\* new_keywords: split on ';', keep the pieces that are not blank, translate
\* each stripped piece and lowercase it; raises when a translate call raises
NewKeywords(text, language) ==
    LET kept == KeptPieces(text)
    IN  IF \E i \in 1..Len(kept) : translate(Strip(kept[i]), language).raised
        THEN [raised |-> TRUE, value |-> <<>>]
        ELSE [raised |-> FALSE,
              value |-> [i \in 1..Len(kept) |->
                            Lower(translate(Strip(kept[i]), language).text)]]

\* a plausible slip: the response is not stripped
NewCaption_NoStrip(text, language) ==
    LET t == translate(text, language)
    IN  [raised |-> t.raised, value |-> t.text]

\* new_caption_abstract: strip the response, translate the whole text
NewCaption(text, language) ==
    LET t == translate(Strip(text), language)
    IN  [raised |-> t.raised, value |-> t.text]

ErrorOutcomes == {"inference_error", "translate_error"}

\* the keyword field: skipped when an old value is there, else one model call
\* with KW_PROMPT, and whatever goes wrong inside the try is logged
KeywordsTry(after_error) ==
    /\ pc = "keywords"
    /\ IF Truthy(old_keywords)
       THEN /\ kw' = [outcome |-> "skipped", raw |-> <<>>]
            /\ UNCHANGED <<info, must_save, calls>>
       ELSE /\ calls' = [calls EXCEPT !.keywords = @ + 1]
            /\ \/ /\ kw' = [outcome |-> "inference_error", raw |-> <<>>]
                  /\ UNCHANGED <<info, must_save>>
               \/ \E text \in RawTexts :
                     LET new_keywords == NewKeywords(text, configuration.language)
                     IN  IF new_keywords.raised
                         THEN /\ kw' = [outcome |-> "translate_error", raw |-> text]
                              /\ UNCHANGED <<info, must_save>>
                         ELSE /\ kw' = [outcome |-> "staged", raw |-> text]
                              /\ info' = [info EXCEPT !.keywords = new_keywords.value]
                              /\ must_save' = TRUE
    /\ pc' = IF kw'.outcome \in ErrorOutcomes THEN after_error ELSE "caption"
    /\ UNCHANGED <<run, committed, fn_call, fn_result>>
    /\ UNCHANGED <<arguments, files, disk, configuration, idx, img_for_llava,
                   old_keywords, old_caption_abstract, ca, pre, processed>>

\* a plausible slip: the except clause of the keyword step leaves the function
KeywordsStep_ErrorReturns == KeywordsTry("returned")

\* a plausible slip: a failed keyword step goes straight to the write
KeywordsStep_ErrorSkipsCaption == KeywordsTry("save")

\* a plausible slip: a failed keyword step is tried again
KeywordsStep_ErrorRetries == KeywordsTry("keywords")

\* the except clause only logs: the caption step follows in every case
KeywordsStep == KeywordsTry("caption")

\* the caption/abstract field: the same with CA_PROMPT
CaptionStep ==
    /\ pc = "caption"
    /\ pc' = "save"
    /\ IF Truthy(old_caption_abstract)
       THEN /\ ca' = [outcome |-> "skipped", raw |-> <<>>]
            /\ UNCHANGED <<info, must_save, calls>>
       ELSE /\ calls' = [calls EXCEPT !.caption = @ + 1]
            /\ \/ /\ ca' = [outcome |-> "inference_error", raw |-> <<>>]
                  /\ UNCHANGED <<info, must_save>>
               \/ \E text \in RawTexts :
                     LET new_caption_abstract == NewCaption(text, configuration.language)
                     IN  IF new_caption_abstract.raised
                         THEN /\ ca' = [outcome |-> "translate_error", raw |-> text]
                              /\ UNCHANGED <<info, must_save>>
                         ELSE /\ ca' = [outcome |-> "staged", raw |-> text]
                              /\ info' = [info EXCEPT !.caption = new_caption_abstract.value]
                              /\ must_save' = TRUE
    /\ UNCHANGED <<run, committed, fn_call, fn_result>>
    /\ UNCHANGED <<arguments, files, disk, configuration, idx, img_for_llava,
                   old_keywords, old_caption_abstract, kw, pre, processed>>

\* plausible slips in the test that guards the write
SaveNeeded_Always(flag) == TRUE
SaveNeeded_Never(flag) == FALSE

\* if must_save:
SaveNeeded(flag) == flag

\* the end of annotate_image: info.save(options=["overwrite"]) when must_save,
\* which writes the record to the file or raises (nothing catches that)
SaveStep ==
    /\ pc = "save"
    /\ IF SaveNeeded(must_save)
       THEN /\ calls' = [calls EXCEPT !.save = @ + 1]
            /\ \E outcome \in {"written", "error"} :
                  IF outcome = "written"
                  THEN /\ disk' = [disk EXCEPT ![idx] = info]
                       /\ committed' = { c \in committed : c[1] # idx } \cup {<<idx, run, info>>}
                       /\ pc' = "returned"
                  ELSE /\ pc' = "crashed"
                       /\ UNCHANGED <<disk, committed>>
       ELSE /\ pc' = "returned"
            /\ UNCHANGED <<disk, committed, calls>>
    /\ UNCHANGED <<run, fn_call, fn_result>>
    /\ UNCHANGED <<arguments, files, configuration, idx, img_for_llava, info,
                   old_keywords, old_caption_abstract, must_save, kw, ca, pre, processed>>

Next ==
    \/ GetConfiguration
    \/ Main
    \/ AnnotateImages
    \/ Walk
    \/ PrepareImage
    \/ OpenMetadata
    \/ KeywordsStep
    \/ CaptionStep
    \/ SaveStep

Spec == Init /\ [][Next]_vars

\* ------------------------------------------------- running the program again
\* the program has ended and is started again with the same command line on
\* the same directory
Rerun ==
    /\ pc = "completed"
    /\ run < MaxRuns
    /\ run' = run + 1
    /\ pc' = "get_configuration"
    /\ configuration' = NoConfiguration
    /\ idx' = 0
    /\ processed' = {}
    /\ UNCHANGED <<arguments, files, disk, locals, committed, fn_call, fn_result>>

RerunNext ==
    \/ Next
    \/ Rerun

\* the directory holds at most one file
RerunInit ==
    /\ Init
    /\ Len(files) <= 1

RerunSpec == RerunInit /\ [][RerunNext]_vars

\* ------------------------------------------- the functions on their own
\* the texts a function is called on: every text up to a length, and the two
\* examples of the specification
KeywordExample == <<"c", "a", "t", ";", " ", "d", "o", "g", " ", ";", ";", " ", "O", "c", "e", "a", "n", " ">>
CaptionExample == <<" ", " ", "A", " ", "d", "o", "g", " ", "r", "u", "n", "s", ".", " ", " ">>
FunctionTexts ==
    UNION { [1..n -> Alphabet] : n \in 0..MaxFunctionTextLen }
        \cup {KeywordExample, CaptionExample}
FunctionLanguages == { <<"e", "n">>, <<"d", "e">>, <<"E", "N">> }

\* the program is not running; one text and one language code are at hand
FunctionInit ==
    /\ fn_call \in [fn : {"pending"}, text : FunctionTexts, language : FunctionLanguages]
    /\ fn_result = NoFunctionCall
    /\ arguments = [directory |-> <<>>, overwrite |-> FALSE, language |-> DefaultLanguage]
    /\ files = <<>>
    /\ disk = <<>>
    /\ pc = "function_call"
    /\ configuration = NoConfiguration
    /\ idx = 0
    /\ img_for_llava = "unset"
    /\ info = NoInfo
    /\ old_keywords = <<>>
    /\ old_caption_abstract = <<>>
    /\ must_save = FALSE
    /\ kw = NoStep
    /\ ca = NoStep
    /\ calls = NoCalls
    /\ pre = EmptyRecord
    /\ processed = {}
    /\ run = 1
    /\ committed = {}

program == <<arguments, files, disk, pc, configuration, idx, locals, processed,
             run, committed>>

\* translate(original_text=text, target_language=language)
CallTranslate ==
    /\ fn_call.fn = "pending"
    /\ fn_call' = [fn_call EXCEPT !.fn = "translate"]
    /\ fn_result' = LET r == translate(fn_call.text, fn_call.language)
                    IN  [fn |-> "translate", raised |-> r.raised, value |-> r.text]
    /\ UNCHANGED program

\* the keyword normalization of annotate_image on a response text
CallNewKeywords ==
    /\ fn_call.fn = "pending"
    /\ fn_call' = [fn_call EXCEPT !.fn = "new_keywords"]
    /\ fn_result' = LET r == NewKeywords(fn_call.text, fn_call.language)
                    IN  [fn |-> "new_keywords", raised |-> r.raised, value |-> r.value]
    /\ UNCHANGED program

\* the caption normalization of annotate_image on a response text
CallNewCaption ==
    /\ fn_call.fn = "pending"
    /\ fn_call' = [fn_call EXCEPT !.fn = "new_caption_abstract"]
    /\ fn_result' = LET r == NewCaption(fn_call.text, fn_call.language)
                    IN  [fn |-> "new_caption_abstract", raised |-> r.raised, value |-> r.value]
    /\ UNCHANGED program

FunctionNext ==
    \/ CallTranslate
    \/ CallNewKeywords
    \/ CallNewCaption

FunctionSpec == FunctionInit /\ [][FunctionNext]_vars

\* ------------------------------------------------------------------ claims
\* a call of annotate_image is under way or has just ended (returned or raised)
InCall ==
    /\ configuration # NoConfiguration
    /\ idx \in processed
    /\ pc \in {"prepare_image_for_llava", "open", "keywords", "caption", "save",
               "returned", "crashed"}

\* both field steps of the call are over
FieldsDecided == kw.outcome # "pending" /\ ca.outcome # "pending"

\* C1: without --overwrite, a field that holds a non-empty value when
\* annotate_image starts is never asked of the model during that call, and
\* its value, in the opened record and in the file, stays the one it had,
\* whether or not the other field caused a write.
C1_SkipIfPresent ==
    (InCall /\ ~configuration.overwrite) =>
        /\ Truthy(pre.keywords) =>
              /\ calls.keywords = 0
              /\ kw.outcome \in {"pending", "skipped"}
              /\ disk[idx].keywords = pre.keywords
              /\ info # NoInfo => info.keywords = pre.keywords
        /\ Truthy(pre.caption) =>
              /\ calls.caption = 0
              /\ ca.outcome \in {"pending", "skipped"}
              /\ disk[idx].caption = pre.caption
              /\ info # NoInfo => info.caption = pre.caption

\* C1 witness: keywords were present, the caption was generated and written,
\* and the call returned.
C1_Witness ==
    /\ InCall /\ pc = "returned"
    /\ ~configuration.overwrite
    /\ Truthy(pre.keywords)
    /\ ca.outcome = "staged" /\ Truthy(info.caption)
    /\ calls.save = 1

\* C2: under --overwrite, a call that has opened the record asks the model
\* once with each prompt whatever the fields hold, and with language 'en' a
\* field whose call returned non-empty text holds the normalized text in the
\* record, and in the file once the write is done.
C2_OverwriteRegenerates ==
    (InCall /\ configuration.overwrite) =>
        /\ kw.outcome # "pending" =>
              /\ calls.keywords = 1
              /\ kw.outcome # "skipped"
        /\ ca.outcome # "pending" =>
              /\ calls.caption = 1
              /\ ca.outcome # "skipped"
        /\ (configuration.language = DefaultLanguage /\ kw.outcome # "pending"
                /\ kw.outcome # "inference_error" /\ kw.raw # <<>>) =>
              /\ info.keywords = NewKeywords(kw.raw, DefaultLanguage).value
              /\ pc = "returned" => disk[idx].keywords = info.keywords
        /\ (configuration.language = DefaultLanguage /\ ca.outcome # "pending"
                /\ ca.outcome # "inference_error" /\ ca.raw # <<>>) =>
              /\ info.caption = NewCaption(ca.raw, DefaultLanguage).value
              /\ pc = "returned" => disk[idx].caption = info.caption

\* C2 witness: both fields held a value and both were replaced in the file.
C2_Witness ==
    /\ InCall /\ pc = "returned"
    /\ configuration.overwrite
    /\ pre.keywords = << <<"z">> >> /\ pre.caption = <<"z">>
    /\ kw.raw = <<"A">> /\ ca.raw = <<"A">>
    /\ disk[idx] = [keywords |-> << <<"a">> >>, caption |-> <<"A">>]

\* C3: when one field's step fails (inference or translation) and the
\* other's succeeds, the succeeding field's new value is staged and the write
\* is invoked once with it, the failing field keeps the value it had when the
\* call started, and a failed keyword step is always followed by the caption
\* step.
C3_FieldIndependence ==
    InCall =>
        /\ (kw.outcome \in ErrorOutcomes /\ pc # "caption") => ca.outcome # "pending"
        /\ (kw.outcome \in ErrorOutcomes /\ ca.outcome # "pending") =>
              /\ ca.outcome = "skipped" <=> Truthy(old_caption_abstract)
              /\ ca.outcome # "skipped" => calls.caption = 1
        /\ (kw.outcome = "staged" /\ ca.outcome \in ErrorOutcomes) =>
              /\ must_save
              /\ info.keywords = NewKeywords(kw.raw, configuration.language).value
              /\ info.caption = pre.caption
              /\ pc = "save" => disk[idx] = pre
              /\ pc # "save" => calls.save = 1
              /\ pc = "returned" => disk[idx] = info
              /\ pc = "crashed" => disk[idx] = pre
        /\ (kw.outcome \in ErrorOutcomes /\ ca.outcome = "staged") =>
              /\ must_save
              /\ info.caption = NewCaption(ca.raw, configuration.language).value
              /\ info.keywords = pre.keywords
              /\ pc = "save" => disk[idx] = pre
              /\ pc # "save" => calls.save = 1
              /\ pc = "returned" => disk[idx] = info
              /\ pc = "crashed" => disk[idx] = pre

\* C3 witness: the keyword call failed, the caption was generated, and the
\* file holds the new caption next to the old keywords.
C3_Witness ==
    /\ InCall /\ pc = "returned"
    /\ kw.outcome = "inference_error" /\ ca.outcome = "staged"
    /\ pre.keywords = << <<"z">> >>
    /\ disk[idx] = [keywords |-> << <<"z">> >>, caption |-> <<"A">>]

\* C4: when both model calls of an image fail, the write is never invoked
\* for it and both fields, in the record and in the file, are unchanged.
C4_BothFailNoCommit ==
    (InCall /\ kw.outcome = "inference_error" /\ ca.outcome = "inference_error") =>
        /\ ~must_save
        /\ calls.save = 0
        /\ pc \in {"save", "returned"}
        /\ info = pre
        /\ disk[idx] = pre

\* C4 witness: both calls were made, both failed, and the call returned.
C4_Witness ==
    /\ InCall /\ pc = "returned"
    /\ kw.outcome = "inference_error" /\ ca.outcome = "inference_error"
    /\ calls.keywords = 1 /\ calls.caption = 1
    /\ Truthy(pre.keywords)

\* C5: a model text that is blank (for keywords: no non-blank piece between
\* the semicolons) is never staged, does not mark the image as changed and
\* does not replace the field's value.
C5_BlankNeverWritten ==
    InCall =>
        /\ (kw.outcome \in {"staged", "translate_error"} /\ KeptPieces(kw.raw) = <<>>) =>
              /\ kw.outcome # "staged"
              /\ info.keywords = pre.keywords
              /\ disk[idx].keywords = pre.keywords
              /\ ca.outcome = "pending" => ~must_save
        /\ (ca.outcome \in {"staged", "translate_error"} /\ Strip(ca.raw) = <<>>) =>
              /\ ca.outcome # "staged"
              /\ info.caption = pre.caption
              /\ disk[idx].caption = pre.caption
              /\ kw.outcome # "staged" => ~must_save

\* C6: in every call the write is invoked exactly once when a field was
\* staged, not at all when none was, and never more than once.
C6_CommitDiscipline ==
    InCall =>
        /\ calls.save <= 1
        /\ pc \notin {"returned", "crashed"} => calls.save = 0
        /\ (pc \in {"returned", "crashed"} /\ ~FieldsDecided) => calls.save = 0
        /\ (pc = "returned" /\ FieldsDecided) =>
              (calls.save = 1 <=> (kw.outcome = "staged" \/ ca.outcome = "staged"))
        /\ (pc = "crashed" /\ FieldsDecided) =>
              (calls.save = 1 /\ (kw.outcome = "staged" \/ ca.outcome = "staged"))

\* C6 witness: one field staged, one skipped, one write.
C6_Witness ==
    /\ InCall /\ pc = "returned"
    /\ kw.outcome = "skipped" /\ ca.outcome = "staged"
    /\ calls.save = 1

\* C7: no failure met while an image is handled escapes annotate_image, and
\* a traversal that has started ends with every JPEG file of the listing
\* handed to annotate_image.
C7_BatchAbsorbsErrors ==
    /\ ~(pc = "crashed" /\ idx >= 1)
    /\ (pc = "completed" /\ Truthy(configuration.directory)) =>
          processed = { i \in 1..Len(files) : IsJpeg(files[i]) }

\* C8: an image whose path does not exist or that cannot be read gives None
\* from the preprocessing, and annotate_image returns without opening the
\* record, calling the model or writing.
C8_AbsentIsNormalResult ==
    (InCall /\ pc # "prepare_image_for_llava" /\ img_for_llava # "payload") =>
        /\ img_for_llava = "None"
        /\ pc = "returned"
        /\ calls = NoCalls
        /\ disk[idx] = pre

\* C9: with a target language other than 'en' no field is ever staged and
\* the write is never invoked, whatever the model answers.
C9_UnsupportedLanguageBlocksWrites ==
    (InCall /\ configuration.language # DefaultLanguage) =>
        /\ kw.outcome # "staged"
        /\ ca.outcome # "staged"
        /\ ~must_save
        /\ calls.save = 0

\* C10: a language code that is not two characters long gives no
\* configuration, and the program ends without entering annotate_images:
\* no file is handled, no record opened, no model call and no write made.
C10_ConfigurationHardStop ==
    Len(arguments.language) # 2 =>
        /\ configuration = NoConfiguration
        /\ pc \in {"get_configuration", "main", "no_configuration"}
        /\ idx = 0
        /\ processed = {}
        /\ calls = NoCalls
        /\ info = NoInfo

\* C10 witness: the program has ended on the missing configuration although
\* the listing holds a JPEG file.
C10_Witness ==
    /\ pc = "no_configuration"
    /\ Len(arguments.language) = 3
    /\ \E i \in 1..Len(files) : IsJpeg(files[i])

\* what the normalizations are to give, read off the text position by position
NonBlank(t, a, b) == { i \in a..b : t[i] \notin Whitespace }
Least(S) == CHOOSE x \in S : \A y \in S : x <= y
Greatest(S) == CHOOSE x \in S : \A y \in S : y <= x
Trimmed(t, a, b) ==
    IF NonBlank(t, a, b) = {} THEN <<>>
    ELSE SubSeq(t, Least(NonBlank(t, a, b)), Greatest(NonBlank(t, a, b)))
Separators(t) == {0, Len(t) + 1} \cup { i \in 1..Len(t) : t[i] = ";" }
NextSeparator(t, a) == Least({ b \in Separators(t) : b > a })
KeptStarts(t) ==
    { a \in Separators(t) : a <= Len(t) /\ NonBlank(t, a + 1, NextSeparator(t, a) - 1) # {} }
Kth(S, k) == CHOOSE x \in S : Cardinality({ y \in S : y < x }) = k - 1
ExpectedKeywords(t) ==
    [k \in 1..Cardinality(KeptStarts(t)) |->
        LET a == Kth(KeptStarts(t), k)
            piece == Trimmed(t, a + 1, NextSeparator(t, a) - 1)
        IN  [i \in 1..Len(piece) |-> LowerChar(piece[i])]]

\* C11: with language 'en' the keyword list built from a response text is
\* exactly its ';'-separated pieces, each trimmed and lowercased, the blank
\* ones dropped, in the order of the text and however many there are;
\* "cat; dog ;; Ocean " gives cat, dog, ocean.
C11_KeywordNormalization ==
    (fn_result.fn = "new_keywords" /\ fn_call.language = DefaultLanguage) =>
        /\ ~fn_result.raised
        /\ fn_result.value = ExpectedKeywords(fn_call.text)
        /\ fn_call.text = KeywordExample =>
              fn_result.value = <<<<"c", "a", "t">>, <<"d", "o", "g">>, <<"o", "c", "e", "a", "n">>>>

\* C11 witness: the example text has been normalized to three keywords.
C11_Witness ==
    /\ fn_result.fn = "new_keywords"
    /\ fn_call.language = DefaultLanguage
    /\ fn_call.text = KeywordExample
    /\ Len(fn_result.value) = 3

\* C12: with language 'en' the caption built from a response text is the
\* text without its surrounding whitespace and otherwise unchanged;
\* "  A dog runs.  " gives "A dog runs.".
C12_CaptionNormalization ==
    (fn_result.fn = "new_caption_abstract" /\ fn_call.language = DefaultLanguage) =>
        /\ ~fn_result.raised
        /\ fn_result.value = Trimmed(fn_call.text, 1, Len(fn_call.text))
        /\ fn_call.text = CaptionExample => fn_result.value = <<"A", " ", "d", "o", "g", " ", "r", "u", "n", "s", ".">>

\* C12 witness: the example text has been normalized.
C12_Witness ==
    /\ fn_result.fn = "new_caption_abstract"
    /\ fn_call.language = DefaultLanguage
    /\ fn_call.text = CaptionExample
    /\ Len(fn_result.value) = 11

\* C13: translate gives back the text unchanged for 'en' and raises, giving
\* no value, for every other language code.
C13_TranslateStage ==
    fn_result.fn = "translate" =>
        /\ fn_call.language = DefaultLanguage =>
              (~fn_result.raised /\ fn_result.value = fn_call.text)
        /\ fn_call.language # DefaultLanguage =>
              (fn_result.raised /\ fn_result.value = <<>>)

\* C13 witness: translate was called with 'de' on a text that is not empty
\* and raised.
C13_Witness ==
    /\ fn_result.fn = "translate"
    /\ fn_call.language = <<"d", "e">>
    /\ fn_call.text = CaptionExample
    /\ fn_result.raised

\* C14: when opening the metadata record of an image fails, the call ends
\* there as a skip: no model call, nothing staged, no write, the file as it
\* was, and the traversal goes on.
C14_OpenFailureSkipsImage ==
    (InCall /\ calls.open = 1 /\ info = NoInfo) =>
        /\ pc = "returned"
        /\ calls.keywords = 0 /\ calls.caption = 0 /\ calls.save = 0
        /\ kw.outcome = "pending" /\ ca.outcome = "pending"
        /\ ~must_save
        /\ disk[idx] = pre

\* where a call of annotate_image stands, against what it has done so far
C15_Order ==
    InCall =>
        /\ pc = "prepare_image_for_llava" =>
              (img_for_llava = "unset" /\ info = NoInfo /\ calls = NoCalls)
        /\ pc = "open" =>
              (img_for_llava = "payload" /\ info = NoInfo /\ calls = NoCalls)
        /\ calls.open >= 1 => img_for_llava = "payload"
        /\ pc = "keywords" =>
              /\ info # NoInfo /\ calls.open = 1
              /\ kw.outcome = "pending" /\ ca.outcome = "pending"
              /\ calls.keywords = 0 /\ calls.caption = 0 /\ calls.save = 0
        /\ (calls.keywords >= 1 \/ kw.outcome # "pending") => (info # NoInfo /\ calls.open = 1)
        /\ pc = "caption" =>
              /\ kw.outcome # "pending" /\ ca.outcome = "pending"
              /\ calls.caption = 0 /\ calls.save = 0
        /\ (calls.caption >= 1 \/ ca.outcome # "pending") => kw.outcome # "pending"
        /\ pc = "save" => (FieldsDecided /\ calls.save = 0)
        /\ calls.save >= 1 => (FieldsDecided /\ pc \in {"returned", "crashed"})

\* the steps the program takes between those positions
C15_Steps ==
    /\ idx' # idx => (pc \in {"walk", "returned"} /\ idx' = idx + 1)
    /\ pc' = "prepare_image_for_llava" => (pc \in {"walk", "returned"} /\ calls' = NoCalls)
    /\ pc' = "open" => pc = "prepare_image_for_llava"
    /\ pc' = "keywords" => pc = "open"
    /\ pc' = "caption" => pc = "keywords"
    /\ pc' = "save" => pc = "caption"
    /\ calls'.open > calls.open => pc = "open"
    /\ calls'.keywords > calls.keywords => (pc = "keywords" /\ pc' = "caption")
    /\ calls'.caption > calls.caption => (pc = "caption" /\ pc' = "save")
    /\ calls'.save > calls.save => pc = "save"
    /\ processed' # processed => processed' = processed \cup {idx + 1}

\* C15: a call of annotate_image goes through preprocessing, opening the
\* record, the keyword step, the caption step and the write in that order;
\* the caption call starts only after the keyword step is over, the write
\* only after both field steps, and the traversal moves to the next file
\* only when the call for the current one is over.
C15_PerImageOrdering == [](C15_Order) /\ [][C15_Steps]_vars

\* C15 witness: the second image of the listing has gone through all the
\* steps after the first one.
C15_Witness ==
    /\ InCall /\ pc = "returned"
    /\ idx = 2 /\ processed = {1, 2}
    /\ calls = [open |-> 1, keywords |-> 1, caption |-> 1, save |-> 1]

\* C16: in one call of annotate_image the model is asked at most once with
\* the keyword prompt and at most once with the caption prompt, and a step
\* that failed is left behind, not tried again.
C16_SingleAttempt ==
    InCall =>
        /\ calls.keywords <= 1
        /\ calls.caption <= 1
        /\ kw.outcome \in ErrorOutcomes => (calls.keywords = 1 /\ pc # "keywords")
        /\ ca.outcome \in ErrorOutcomes => (calls.caption = 1 /\ pc # "caption")

\* C16 witness: the keyword call failed once, the caption call was made once,
\* and the call returned.
C16_Witness ==
    /\ InCall /\ pc = "returned"
    /\ kw.outcome = "inference_error" /\ ca.outcome = "staged"
    /\ ~Truthy(pre.keywords)
    /\ calls.keywords = 1 /\ calls.caption = 1

\* C17: the keyword list built from a response text holds no keyword twice.
C17_KeywordsDeduplicated ==
    (fn_result.fn = "new_keywords" /\ ~fn_result.raised) =>
        \A i, j \in 1..Len(fn_result.value) :
            fn_result.value[i] = fn_result.value[j] => i = j

\* what an earlier run wrote to the current file with both fields non-empty
EarlierCommit ==
    { c \in committed : c[1] = idx /\ c[2] < run
                        /\ Truthy(c[3].keywords) /\ Truthy(c[3].caption) }

\* C18: without --overwrite and with language 'en', when an earlier run of
\* annotate_image wrote non-empty values for both fields of an image, a
\* later run on that image asks the model nothing, stages nothing, does not
\* write, and leaves both fields as the earlier run wrote them.
C18_RerunIsNoOp ==
    (InCall /\ ~configuration.overwrite /\ configuration.language = DefaultLanguage
            /\ EarlierCommit # {}) =>
        \A c \in EarlierCommit :
            /\ pre = c[3]
            /\ disk[idx] = c[3]
            /\ info # NoInfo => info = c[3]
            /\ calls.keywords = 0 /\ calls.caption = 0 /\ calls.save = 0
            /\ kw.outcome \in {"pending", "skipped"}
            /\ ca.outcome \in {"pending", "skipped"}
            /\ ~must_save

\* C18 witness: the first run generated and wrote both fields, and the
\* second run on the image has returned having skipped both.
C18_Witness ==
    /\ InCall /\ pc = "returned" /\ run = 2
    /\ ~configuration.overwrite /\ configuration.language = DefaultLanguage
    /\ <<idx, 1, [keywords |-> << <<"a">> >>, caption |-> <<"A">>]>> \in committed
    /\ kw.outcome = "skipped" /\ ca.outcome = "skipped"
    /\ calls.open = 1

====
